---- MODULE Spec2Model ----
(***************************************************************************)
(* A model of mcp-valve (src/main.rs): the MCP protocol session            *)
(* (McpClient), the daemon supervisor (DaemonManager), the daemon's        *)
(* per-connection server (run_daemon, handle_client), the socket client    *)
(* (call_via_daemon) and the dispatch in main (Commands::Call).            *)
(*                                                                         *)
(* Time is abstracted: a sleep is a step boundary, a timeout is a step     *)
(* that may be taken whenever the waiting party is still waiting.          *)
(***************************************************************************)
EXTENDS Integers, Sequences, FiniteSets, TLC

(***************************************************************************)
(* Bounds of the model.                                                    *)
(***************************************************************************)
\* Daemon processes that may be spawned in one behaviour (pids 1..MaxPid).
MaxPid == 2
\* Largest request id a session may allocate (handshake included).
MaxReq == 3
\* Longest "content" array an engine puts into a tools/call result.
MaxItems == 2
\* Connections that may wait in a daemon's listen queue (a connect to a full
\* queue is not modelled).
MaxBacklog == 1

(***************************************************************************)
(* Program constants.                                                      *)
(***************************************************************************)
\* for i in 0..50: socket-existence polls of DaemonManager::start.
StartPolls == 50
\* if i == 20: the one liveness check of the start poll loop.
MidCheckAt == 20
\* for _ in 0..10: liveness probes of DaemonManager::stop after SIGTERM.
StopProbes == 10

Pids == 1..MaxPid
\* Command-line invocations (processes of the CLI) that may be in progress.
Clients == {"c1", "c2"}

(***************************************************************************)
(* JSON values, as far as the code inspects them.                          *)
(***************************************************************************)
Texts == {"boom", "bang"}

\* One item of a result's "content" array: item.get("text").as_str().
Items == [text : {<<>>} \cup {<<t>> : t \in Texts}]

RECURSIVE SeqsUpTo(_, _)
SeqsUpTo(S, n) ==
    IF n = 0 THEN {<<>>}
    ELSE LET shorter == SeqsUpTo(S, n - 1)
         IN  shorter \cup {Append(q, x) : q \in {r \in shorter : Len(r) = n - 1}, x \in S}

\* result.get("content"): absent, present but no array, or an array of items.
Contents ==
    {[kind |-> "absent", items |-> <<>>], [kind |-> "nonarray", items |-> <<>>]}
    \cup {[kind |-> "array", items |-> q] : q \in SeqsUpTo(Items, MaxItems)}

\* result.get("isError").as_bool(): absent, a boolean, or a non-boolean value.
IsErrorVals == {"absent", "true", "false", "nonbool"}

\* response["result"] of a response without a "result" member: Value::Null.
NullResult == [null |-> TRUE, isError |-> "absent", content |-> [kind |-> "absent", items |-> <<>>]]

ObjResults == [null : {FALSE}, isError : IsErrorVals, content : Contents]

Results == {NullResult} \cup ObjResults

\* The value of a response's "error" member, when it has one ("error": null
\* is a member too: Value::get returns Some(Null)).
EngineErrors == {<<"null">>, <<"E">>}

\* A line read from a stream: kind "eof" is the empty line read_line leaves at
\* end of file, "garbage" a line serde_json::from_str rejects, "json" a value
\* with error = {} (no "error" member) or {e}.
EofLine == [kind |-> "eof", error |-> {}, result |-> NullResult]
GarbageLine == [kind |-> "garbage", error |-> {}, result |-> NullResult]
JsonLine(err, res) == [kind |-> "json", error |-> err, result |-> res]

\* Every line an engine may write for one request, up to what the code reads.
AllLines ==
    {GarbageLine}
    \cup {JsonLine({}, r) : r \in Results}
    \cup {JsonLine({e}, r) : e \in EngineErrors,
                             r \in {NullResult, [null |-> FALSE, isError |-> "true",
                                                 content |-> [kind |-> "absent", items |-> <<>>]]}}

\* One line of each kind the code tells apart: unparsable, a plain result, a
\* tool failure with and without a text, an error response.
PlainResult == [null |-> FALSE, isError |-> "absent", content |-> [kind |-> "absent", items |-> <<>>]]
ToolFailure(items) == [null |-> FALSE, isError |-> "true", content |-> [kind |-> "array", items |-> items]]
SomeLines ==
    {GarbageLine, JsonLine({}, PlainResult), JsonLine({}, ToolFailure(<<[text |-> <<"boom">>]>>)),
     JsonLine({}, ToolFailure(<<>>)), JsonLine({<<"E">>}, NullResult)}

\* The same for the answer to initialize, of which only send_request reads.
SomeInitLines == {GarbageLine, JsonLine({}, PlainResult), JsonLine({<<"E">>}, NullResult)}

(***************************************************************************)
(* Server names: strings over a few characters, one or two of each class   *)
(* the filter tells apart.  "e'" stands for a letter outside ASCII, which   *)
(* char::is_alphanumeric accepts as it does every Unicode letter and digit. *)
(***************************************************************************)
MaxLen == 3
AsciiAlnum == {"a", "Z", "7"}
Chars == AsciiAlnum \cup {"e'", "-", "_", "/", "."}
RECURSIVE NamesUpTo(_)
NamesUpTo(n) ==
    IF n = 0 THEN {<<>>}
    ELSE NamesUpTo(n - 1) \cup {Append(w, ch) : w \in {v \in NamesUpTo(n - 1) : Len(v) = n - 1},
                                                ch \in Chars}

\* char::is_alphanumeric: Alphabetic or Numeric in Unicode.
is_alphanumeric(ch) == ch \in AsciiAlnum \cup {"e'"}

\* A filter that lets the dot through as well.
sanitize_server_name_dots(name) ==
    SelectSeq(name, LAMBDA ch : is_alphanumeric(ch) \/ ch = "-" \/ ch = "_" \/ ch = ".")

\* name.chars().filter(|c| c.is_alphanumeric() || *c == '-' || *c == '_').collect()
sanitize_server_name(name) ==
    SelectSeq(name, LAMBDA ch : is_alphanumeric(ch) \/ ch = "-" \/ ch = "_")

(***************************************************************************)
(* Results of the Rust functions: Ok(value) or Err(message).  A message is *)
(* a sequence of strings: the text before the first ": " and what follows. *)
(***************************************************************************)
Ok(v) == [ok |-> TRUE, value |-> v, err |-> <<>>]
Err(m) == [ok |-> FALSE, value |-> NullResult, err |-> m]

\* send_request, after the write: parse the line, reject an "error" member.
send_request_read(line) ==
    IF line.kind # "json" THEN Err(<<"Failed to parse JSON-RPC response">>)
    ELSE IF line.error # {} THEN Err(<<"MCP Error">> \o (CHOOSE e \in line.error : TRUE))
    ELSE Ok(line.result)

\* error_msg taking the last item of the array instead of the first.
error_msg_last(result) ==
    IF /\ result.content.kind = "array"
       /\ Len(result.content.items) > 0
       /\ result.content.items[Len(result.content.items)].text # <<>>
    THEN result.content.items[Len(result.content.items)].text[1]
    ELSE "Tool execution failed"

\* The error_msg chain of call_tool: content -> as_array -> first -> text -> as_str.
error_msg(result) ==
    IF /\ result.content.kind = "array"
       /\ Len(result.content.items) > 0
       /\ result.content.items[1].text # <<>>
    THEN result.content.items[1].text[1]
    ELSE "Tool execution failed"

\* call_tool, after send_request returned: the isError check.
call_tool_read(line) ==
    LET response == send_request_read(line)
    IN  IF ~response.ok THEN response
        ELSE IF response.value.isError = "true"
             THEN Err(<<"Tool Error", error_msg(response.value)>>)
             ELSE Ok(response.value)

\* list_tools, after send_request returned: response["result"] unchanged.
list_tools_read(line) == send_request_read(line)

(***************************************************************************)
(* Wire messages written to an engine's stdin or to the daemon's socket.   *)
(* id is {} for a notification (no "id" member) and {n} for a request.     *)
(***************************************************************************)
ToolCalls == {[name |-> "t1", arguments |-> "a1"]}
NoParams == [name |-> "", arguments |-> ""]

Request(method, id, params) == [method |-> method, id |-> {id}, params |-> params]
Notification(method) == [method |-> method, id |-> {}, params |-> NoParams]

(***************************************************************************)
(* struct McpClient { child, stdin, stdout, request_id }.                  *)
(* child: "none" (no process), "alive", "exited" (by itself), "killed"     *)
(* (child.kill()).  stdin: the lines written to the engine so far.         *)
(* stdout: the lines the engine wrote that were not read yet.  answered:   *)
(* how many requests the engine has answered (the engine's own state).     *)
(***************************************************************************)
NoSession == [child |-> "none", request_id |-> 0, stdin |-> <<>>, stdout |-> <<>>, answered |-> 0]

\* McpClient::start up to the struct literal: the engine runs, request_id: 0.
Spawned == [child |-> "alive", request_id |-> 0, stdin |-> <<>>, stdout |-> <<>>, answered |-> 0]

\* next_id without the increment.
next_id_stuck(s) == [s EXCEPT !.request_id = 1]

\* next_id: self.request_id += 1.
next_id(s) == [s EXCEPT !.request_id = @ + 1]

\* writeln!(self.stdin, ...) + flush: fails once the engine is gone (EPIPE).
CanWrite(s) == s.child = "alive"
writeln(s, msg) == [s EXCEPT !.stdin = Append(@, msg)]

\* read_line on the engine's stdout returns when a line is there, or at end of
\* file (the engine is gone and the pipe is drained).
CanRead(s) == s.stdout # <<>> \/ s.child # "alive"
read_line(s) == IF s.stdout # <<>> THEN Head(s.stdout) ELSE EofLine
AfterRead(s) == IF s.stdout # <<>> THEN [s EXCEPT !.stdout = Tail(@)] ELSE s

\* A McpClient without a destructor.
drop_nothing(s) == s

\* impl Drop for McpClient: let _ = self.child.kill().
drop(s) == IF s.child = "alive" THEN [s EXCEPT !.child = "killed"] ELSE s

\* The owner is killed by a signal: no destructor runs, the struct and its
\* pipe ends are gone, the engine process is left as it is.
abandoned(s) == [NoSession EXCEPT !.child = s.child]

\* initialize, up to the blocking read of send_request: allocate the id and
\* write the initialize request (the engine was spawned in the same call).
initialize_send(s) ==
    LET s1 == next_id(s)
    IN  writeln(s1, Request("initialize", s1.request_id, NoParams))

\* initialize_finish with a send_request that does not look at "error".
initialize_finish_unchecked(s, line) ==
    IF line.kind # "json" THEN [res |-> Err(<<"Failed to parse JSON-RPC response">>), sess |-> s]
    ELSE IF ~CanWrite(s) THEN [res |-> Err(<<"Broken pipe">>), sess |-> s]
    ELSE [res |-> Ok(NullResult), sess |-> writeln(s, Notification("notifications/initialized"))]

\* initialize, from the line read: send_request's parse, then send_notification.
\* Returns the Result of McpClient::start and the session as it is left.
initialize_finish(s, line) ==
    LET r == send_request_read(line)
    IN  IF ~r.ok THEN [res |-> r, sess |-> s]
        ELSE IF ~CanWrite(s) THEN [res |-> Err(<<"Broken pipe">>), sess |-> s]
        ELSE [res |-> Ok(NullResult), sess |-> writeln(s, Notification("notifications/initialized"))]

\* call_tool / list_tools, up to the blocking read: allocate the id, write the
\* request.  The id is consumed even if the write fails.
request_send(s, method, params) ==
    LET s1 == next_id(s)
    IN  IF CanWrite(s1)
        THEN [ok |-> TRUE, sess |-> writeln(s1, Request(method, s1.request_id, params))]
        ELSE [ok |-> FALSE, sess |-> s1]

\* call_tool / list_tools from the line read.
request_read(method, line) ==
    IF method = "tools/call" THEN call_tool_read(line) ELSE list_tools_read(line)

(***************************************************************************)
(* The engine (an external process): it answers the requests it received   *)
(* in order, with any line, and may exit at any time.                      *)
(***************************************************************************)
NumRequests(s) == Cardinality({k \in 1..Len(s.stdin) : s.stdin[k].id # {}})

EngineSteps(s, initLines, lines) ==
    IF s.child # "alive" THEN {}
    ELSE {[s EXCEPT !.child = "exited"]}
         \cup (IF NumRequests(s) > s.answered
               THEN {[s EXCEPT !.stdout = Append(@, l), !.answered = @ + 1] :
                        l \in IF s.answered = 0 THEN initLines ELSE lines}
               ELSE {})

(***************************************************************************)
(* State.                                                                  *)
(***************************************************************************)
VARIABLES
    pidFile,    \* .mcp-profile/<name>/daemon.pid
    sockFiles,  \* the pids p whose socket file /tmp/.mcp/<name>-<p>.sock exists
    logFile,    \* daemon.log: "absent", "empty" (just created) or "written"
    nextPid,    \* the pid the next spawned daemon process gets
    proc,       \* the daemon processes, by pid
    dsess,      \* the McpClient each daemon process owns (mcp in run_daemon)
    cli,        \* the command-line invocations
    csess       \* the McpClient a command-line invocation owns (mcp in main)

vars == <<pidFile, sockFiles, logFile, nextPid, proc, dsess, cli, csess>>

\* The PID file: absent, or the decimal text of a pid.
NoFile == [exists |-> FALSE, parses |-> FALSE, pid |-> {}]
PidText(p) == [exists |-> TRUE, parses |-> TRUE, pid |-> {p}]
\* A PID file whose text is not a number (empty, truncated, edited).
GarbageFile == [exists |-> TRUE, parses |-> FALSE, pid |-> {}]

\* A daemon process.  st: "none" (never spawned), "spawned" (before bind),
\* "bound" (socket bound, before McpClient::start), "handshake" (inside
\* McpClient::start), "serving" (blocked in accept), "busy" (inside
\* handle_client, blocked on the engine), "zombie" (exited, not reaped by the
\* start() that spawned it), "dead".  parent: the start() invocation whose
\* child it still is.  term: a SIGTERM was sent and not acted on yet.
\* backlog: accepted-to-be connections with the request line each carries;
\* peer is {} once the client end was closed.  cur: the connection being
\* handled.  "foreign": the pid belongs to a process of another user.
NoProc == [st |-> "none", parent |-> {}, term |-> FALSE, backlog |-> <<>>, cur |-> <<>>]

Listening(p) == proc[p].st \in {"bound", "handshake", "serving", "busy"}
Running(p) == proc[p].st \in {"spawned", "bound", "handshake", "serving", "busy"}
\* kill(pid, sig) finds the process: a zombie still has its pid.
ProcessExists(p) == proc[p].st \notin {"none", "dead"}
\* The outcome of kill(pid, sig) for any sig: ESRCH for no such process,
\* EPERM for a process of another user.
kill(p) == IF ~ProcessExists(p) THEN "ESRCH"
           ELSE IF proc[p].st = "foreign" THEN "EPERM" ELSE "ok"

\* A process that ends while the start() that spawned it still runs is not
\* waited for by it: it stays a zombie under the default SIGCHLD disposition
\* and is reaped at once when SIGCHLD is ignored (inherited across exec).
EndStates(p) == IF proc[p].parent # {} THEN {"zombie", "dead"} ELSE {"dead"}

\* A command-line invocation.  op, pc: the command and where it stands.
\* supports: profile.supports_daemon.  i: the loop index of start / stop.
\* pid: child_pid of start, pid of stop.  sock: socket_path of stop.
\* route: how main dispatched the call.  connects: UnixStream::connect calls.
\* sessions: McpClient::start calls.  conn: the daemon it is connected to.
\* sent: the line it wrote to the daemon.  resp: the lines the daemon wrote to
\* it.  hung: the daemon has closed the connection.  served: the line the daemon's
\* session had read from its engine for that response.  ipc: the Result of
\* call_via_daemon.  res: the Result the command ends with.  out: its last
\* message.  sigs: the signals it sent.  warned: the fallback warning.
\* report: what status printed.  name: the server name given to
\* DaemonManager::new, as its characters.  dir: the directory name under
\* .mcp-profile made from it.  path: a socket path it computed.
NoReport == [running |-> FALSE, pid |-> {}, socket |-> {}]
IdleCli == [op |-> "none", pc |-> "idle", supports |-> FALSE, i |-> 0, pid |-> {}, sock |-> {},
            route |-> "none", connects |-> 0, sessions |-> 0, method |-> "", params |-> NoParams,
            conn |-> {}, sent |-> <<>>, resp |-> <<>>, hung |-> FALSE, served |-> <<>>, ipc |-> <<>>, res |-> Ok(NullResult),
            out |-> "", sigs |-> <<>>, warned |-> FALSE, report |-> NoReport,
            name |-> <<>>, dir |-> <<>>, path |-> <<>>]

Free(c) == cli[c].pc \in {"idle", "done"}

Init ==
    /\ pidFile = NoFile
    /\ sockFiles = {}
    /\ logFile = "absent"
    /\ nextPid = 1
    /\ proc = [p \in Pids |-> NoProc]
    /\ dsess = [p \in Pids |-> NoSession]
    /\ cli = [c \in Clients |-> IdleCli]
    /\ csess = [c \in Clients |-> NoSession]

(***************************************************************************)
(* DaemonManager: the liveness probe and the socket path.                  *)
(***************************************************************************)
\* kill(Pid::from_raw(pid), None) in is_running: Ok and EPERM mean running.
KillResults == {"ok", "ESRCH", "EPERM", "other"}

\* An is_running that takes only Ok(_) for running.
is_running_of_ok_only(file, k) ==
    IF ~file.exists THEN [err |-> FALSE, val |-> FALSE]
    ELSE IF ~file.parses THEN [err |-> TRUE, val |-> FALSE]
    ELSE [err |-> FALSE, val |-> k = "ok"]

\* is_running, given the PID file and what kill(pid, None) returns.
is_running_of(file, k) ==
    IF ~file.exists THEN [err |-> FALSE, val |-> FALSE]
    ELSE IF ~file.parses THEN [err |-> TRUE, val |-> FALSE]
    ELSE [err |-> FALSE, val |-> k \in {"ok", "EPERM"}]

\* A probe that does not look at the PID file.
is_running_absent == is_running_of(NoFile, "ESRCH")

is_running ==
    is_running_of(pidFile, IF pidFile.pid = {} THEN "ESRCH"
                           ELSE kill(CHOOSE p \in pidFile.pid : TRUE))

\* get_socket_path: Err when the PID file cannot be read, else the path named
\* by the pid text ({p} stands for /tmp/.mcp/<name>-<p>.sock).
get_socket_path == IF pidFile.exists THEN [err |-> FALSE, path |-> pidFile.pid]
                   ELSE [err |-> TRUE, path |-> {}]

\* An exists() that does not look at the file system.
socket_assumed(p) == TRUE

\* expected_socket.exists() / sp.exists(): the socket file of pid p is there.
socket_exists(p) == p \in sockFiles

\* A remove_file that leaves the file in place.
remove_file_kept(file) == file

\* fs::remove_file(..).ok(): the file is gone afterwards.
remove_file(file) == NoFile
remove_socket(path) == sockFiles \ path

(***************************************************************************)
(* The engines.                                                            *)
(***************************************************************************)
engine_step_daemon(p) ==
    /\ \E s \in EngineSteps(dsess[p], SomeInitLines, SomeLines) : dsess' = [dsess EXCEPT ![p] = s]
    /\ UNCHANGED <<pidFile, sockFiles, logFile, nextPid, proc, cli, csess>>

engine_step_client(c, initLines, lines) ==
    /\ \E s \in EngineSteps(csess[c], initLines, lines) : csess' = [csess EXCEPT ![c] = s]
    /\ UNCHANGED <<pidFile, sockFiles, logFile, nextPid, proc, dsess, cli>>

(***************************************************************************)
(* The daemon process: main's __internal_daemon branch and run_daemon.     *)
(***************************************************************************)
\* The process ends: its listener and its connections are closed by the
\* kernel; nothing unlinks the socket file and no destructor runs.
Ended(p, st) == [proc[p] EXCEPT !.st = st, !.term = FALSE, !.backlog = <<>>, !.cur = <<>>]

\* load_server_config / the profile lookup / create_dir_all / bind fail: the
\* process exits before a socket file exists.
run_daemon_fail_early(p) ==
    /\ proc[p].st = "spawned"
    /\ \E st \in EndStates(p) : proc' = [proc EXCEPT ![p] = Ended(p, st)]
    /\ logFile' = "written"
    /\ UNCHANGED <<pidFile, sockFiles, nextPid, dsess, cli, csess>>

\* run_daemon up to "Daemon listening on": remove an old socket file, bind;
\* the message goes to the log file, which is the daemon's stderr.
run_daemon_bind(p) ==
    /\ proc[p].st = "spawned"
    /\ sockFiles' = sockFiles \cup {p}
    /\ proc' = [proc EXCEPT ![p].st = "bound"]
    /\ logFile' = "written"
    /\ UNCHANGED <<pidFile, nextPid, dsess, cli, csess>>

\* McpClient::start in run_daemon, up to the blocking read of initialize; a
\* spawn failure ends run_daemon with the error (the socket file stays).
run_daemon_start_session(p) ==
    /\ proc[p].st = "bound"
    /\ \/ /\ dsess' = [dsess EXCEPT ![p] = initialize_send(Spawned)]
          /\ proc' = [proc EXCEPT ![p].st = "handshake"]
       \/ /\ \E st \in EndStates(p) : proc' = [proc EXCEPT ![p] = Ended(p, st)]
          /\ UNCHANGED dsess
    /\ logFile' = "written"
    /\ UNCHANGED <<pidFile, sockFiles, nextPid, cli, csess>>

\* McpClient::start in run_daemon, from the line read: on Ok the accept loop
\* is entered, on Err the client is dropped and run_daemon returns the error.
run_daemon_handshake(p) ==
    /\ proc[p].st = "handshake"
    /\ CanRead(dsess[p])
    /\ LET r == initialize_finish(AfterRead(dsess[p]), read_line(dsess[p]))
       IN  IF r.res.ok
           THEN /\ dsess' = [dsess EXCEPT ![p] = r.sess]
                /\ proc' = [proc EXCEPT ![p].st = "serving"]
           ELSE /\ dsess' = [dsess EXCEPT ![p] = abandoned(drop(r.sess))]
                /\ \E st \in EndStates(p) : proc' = [proc EXCEPT ![p] = Ended(p, st)]
    /\ logFile' = "written"
    /\ UNCHANGED <<pidFile, sockFiles, nextPid, cli, csess>>

\* The response envelopes of handle_client; id is request["id"] ({} stands
\* for null, the value of a missing member).
result_envelope(id, result) == [kind |-> "json", error |-> {}, result |-> result, id |-> id]
error_envelope(id, e) ==
    [kind |-> "json", error |-> {<<"message">> \o e}, result |-> NullResult, id |-> id]
envelope(id, r) == IF r.ok THEN result_envelope(id, r.value) ELSE error_envelope(id, r.err)

\* A client is blocked reading the response from its connection.
Waiting(c) == cli[c].pc \in {"ipc_wait", "raw_wait"}

\* writeln!(stream, ...) at the end of handle_client, then the stream is
\* dropped: the line reaches the client if its end of the connection is still
\* open, and the client sees the connection closed.
Deliver(conn, served, line) ==
    [c \in Clients |-> IF c \in conn.peer /\ Waiting(c)
                       THEN [cli[c] EXCEPT !.resp = Append(@, line), !.served = served,
                                           !.hung = TRUE]
                       ELSE cli[c]]

\* handle_client returns Err before its writeln!: the stream is dropped with
\* nothing written.
Hangup(conn) ==
    [c \in Clients |-> IF c \in conn.peer /\ Waiting(c)
                       THEN [cli[c] EXCEPT !.hung = TRUE] ELSE cli[c]]

\* The write fails when the client has gone; run_daemon then prints
\* "Client error" to the log file.
LogAfter(conn) == IF \E c \in conn.peer : Waiting(c) THEN logFile ELSE "written"

\* The `?` returns of handle_client before the match arms run: the error, or
\* <<>> when the request is dispatched.
request_error(conn) ==
    IF conn.kind = "oversize" THEN <<"Request too large">>
    ELSE IF conn.kind # "json" THEN <<"Invalid JSON-RPC request">>
    ELSE IF conn.req.method = "" THEN <<"Missing method">>
    ELSE IF conn.req.method = "tools/call" /\ conn.req.params.name = ""
    THEN <<"Missing tool name">>
    ELSE <<>>

\* An accept loop that serves a connection while another is being served.
can_accept_busy(p) == proc[p].st \in {"serving", "busy"}

\* listener.incoming() is polled only between two handle_client calls.
can_accept(p) == proc[p].st = "serving"

\* An accept loop that returns the error of handle_client with `?`.
loop_after_propagating(ok) == IF ok THEN "serving" ELSE "dead"

\* run_daemon after handle_client returned: `if let Err(e)` prints the error
\* and the loop goes on.
loop_after(ok) == "serving"

\* listener.incoming() yields a connection; handle_client reads its line and
\* dispatches.  tools/call and tools/list allocate an id and write to the
\* engine; if that write fails the error envelope is written at once.
handle_client_accept(p) ==
    /\ can_accept(p)
    /\ proc[p].backlog # <<>>
    /\ LET conn == Head(proc[p].backlog)
           id == conn.req.id
           sent == request_send(dsess[p], conn.req.method, conn.req.params)
       IN  IF request_error(conn) # <<>>
           THEN /\ proc' = [proc EXCEPT ![p].backlog = Tail(@), ![p].st = loop_after(FALSE)]
                /\ cli' = Hangup(conn)
                /\ logFile' = "written"
                /\ UNCHANGED dsess
           ELSE IF conn.req.method \notin {"tools/call", "tools/list"}
           THEN /\ proc' = [proc EXCEPT ![p].backlog = Tail(@),
                                        ![p].st = loop_after(\E c \in conn.peer : Waiting(c))]
                /\ cli' = Deliver(conn, <<>>, error_envelope(id, <<"Unknown method", conn.req.method>>))
                /\ logFile' = LogAfter(conn)
                /\ UNCHANGED dsess
           ELSE /\ dsess[p].request_id < MaxReq
                /\ dsess' = [dsess EXCEPT ![p] = sent.sess]
                /\ IF sent.ok
                   THEN /\ proc' = [proc EXCEPT ![p].st = "busy", ![p].backlog = Tail(@),
                                                ![p].cur = Append(@, conn)]
                        /\ UNCHANGED <<cli, logFile>>
                   ELSE /\ proc' = [proc EXCEPT ![p].backlog = Tail(@),
                                                ![p].st = loop_after(\E c \in conn.peer : Waiting(c))]
                        /\ cli' = Deliver(conn, <<>>, error_envelope(id, <<"Broken pipe">>))
                        /\ logFile' = LogAfter(conn)
    /\ UNCHANGED <<pidFile, sockFiles, nextPid, csess>>

\* handle_client from the line send_request read: the match on the Result of
\* call_tool / list_tools, the envelope, the write to the client.
handle_client_reply(p) ==
    /\ proc[p].st = "busy"
    /\ CanRead(dsess[p])
    /\ LET conn == Head(proc[p].cur)
           line == read_line(dsess[p])
       IN  /\ dsess' = [dsess EXCEPT ![p] = AfterRead(dsess[p])]
           /\ proc' = [proc EXCEPT ![p].st = loop_after(\E c \in conn.peer : Waiting(c)),
                                   ![p].cur = Tail(@)]
           /\ cli' = Deliver(conn, <<line>>,
                             envelope(conn.req.id, request_read(conn.req.method, line)))
           /\ logFile' = LogAfter(conn)
    /\ UNCHANGED <<pidFile, sockFiles, nextPid, csess>>

\* The default action of SIGTERM: the process ends, whenever the signal is
\* delivered and acted on.
daemon_sigterm(p) ==
    /\ proc[p].term
    /\ Running(p)
    /\ \E st \in EndStates(p) : proc' = [proc EXCEPT ![p] = Ended(p, st)]
    /\ dsess' = [dsess EXCEPT ![p] = abandoned(@)]
    /\ UNCHANGED <<pidFile, sockFiles, logFile, nextPid, cli, csess>>

(***************************************************************************)
(* DaemonManager::start.                                                   *)
(***************************************************************************)
\* main returns: the command's process ends.  The daemon processes it spawned
\* are re-parented to init, which reaps the zombies among them.
Finish(rec, res, out) == [rec EXCEPT !.pc = "done", !.i = 0, !.res = res, !.out = out]

Orphaned(c) ==
    [p \in Pids |-> IF c \in proc[p].parent
                    THEN [proc[p] EXCEPT !.parent = {},
                                         !.st = IF @ = "zombie" THEN "dead" ELSE @]
                    ELSE proc[p]]

\* start without the is_running check.
start_refusal_unprobed(supports) ==
    IF ~supports THEN <<"does not support daemon mode">> ELSE <<>>

\* The early returns of start: the error, or <<>> when start goes on.
start_refusal(supports) ==
    IF ~supports THEN <<"does not support daemon mode">>
    ELSE IF is_running.err THEN <<"Invalid PID in file">>
    ELSE IF is_running.val THEN <<"Daemon already running">>
    ELSE <<>>

\* start, up to "Starting MCP daemon".
DaemonManager_start_check(c, supports) ==
    /\ Free(c)
    /\ LET rec == [IdleCli EXCEPT !.op = "start", !.supports = supports]
           refusal == start_refusal(supports)
       IN  cli' = [cli EXCEPT ![c] =
               IF refusal # <<>> THEN Finish(rec, Err(refusal), "")
               ELSE [rec EXCEPT !.pc = "spawn"]]
    /\ csess' = [csess EXCEPT ![c] = NoSession]
    /\ UNCHANGED <<pidFile, sockFiles, logFile, nextPid, proc, dsess>>

\* start, from File::create(daemon.log) to the PID file write.
DaemonManager_start_spawn(c) ==
    /\ cli[c].op = "start" /\ cli[c].pc = "spawn"
    /\ logFile' = "empty"
    /\ \/ /\ nextPid \in Pids
          /\ proc' = [proc EXCEPT ![nextPid] = [NoProc EXCEPT !.st = "spawned", !.parent = {c}]]
          /\ nextPid' = nextPid + 1
          /\ pidFile' = PidText(nextPid)
          /\ cli' = [cli EXCEPT ![c].pid = {nextPid}, ![c].i = 0, ![c].pc = "poll"]
       \/ /\ cli' = [cli EXCEPT ![c] = Finish(@, Err(<<"Failed to spawn daemon process">>), "")]
          /\ UNCHANGED <<proc, nextPid, pidFile>>
    /\ UNCHANGED <<sockFiles, dsess, csess>>

\* One iteration of "for i in 0..50": the exists() test, the sleep, the
\* liveness check at i == 20, and after the last iteration the timeout.
DaemonManager_start_poll(c) ==
    /\ cli[c].op = "start" /\ cli[c].pc = "poll"
    /\ LET i == cli[c].i
           child_pid == CHOOSE p \in cli[c].pid : TRUE
       IN  IF socket_exists(child_pid)
           THEN /\ cli' = [cli EXCEPT ![c] = Finish(@, Ok(NullResult), "Daemon started")]
                /\ proc' = Orphaned(c)
                /\ UNCHANGED pidFile
           ELSE IF i = MidCheckAt /\ kill(child_pid) # "ok"
           THEN /\ pidFile' = remove_file(pidFile)
                /\ cli' = [cli EXCEPT ![c] =
                              Finish(@, Err(<<"Daemon process exited unexpectedly">>), "")]
                /\ proc' = Orphaned(c)
           ELSE IF i + 1 = StartPolls
           THEN /\ pidFile' = remove_file(pidFile)
                /\ cli' = [cli EXCEPT ![c] =
                              Finish(@, Err(<<"Daemon failed to start">>), "")]
                /\ proc' = Orphaned(c)
           ELSE /\ cli' = [cli EXCEPT ![c].i = i + 1]
                /\ UNCHANGED <<pidFile, proc>>
    /\ UNCHANGED <<sockFiles, logFile, nextPid, dsess, csess>>

(***************************************************************************)
(* DaemonManager::stop.                                                    *)
(***************************************************************************)
\* stop, up to "Stopping daemon": the probe, the pid, the socket path.
DaemonManager_stop_check(c) ==
    /\ Free(c)
    /\ LET rec == [IdleCli EXCEPT !.op = "stop"]
           running == is_running
       IN  cli' = [cli EXCEPT ![c] =
               IF running.err THEN Finish(rec, Err(<<"Invalid PID in file">>), "")
               ELSE IF ~running.val THEN Finish(rec, Err(<<"Daemon not running">>), "")
               ELSE [rec EXCEPT !.pid = pidFile.pid, !.sock = get_socket_path.path,
                                !.pc = "term"]]
    /\ csess' = [csess EXCEPT ![c] = NoSession]
    /\ UNCHANGED <<pidFile, sockFiles, logFile, nextPid, proc, dsess>>

\* kill(pid, SIGTERM)?
DaemonManager_stop_term(c) ==
    /\ cli[c].op = "stop" /\ cli[c].pc = "term"
    /\ LET pid == CHOOSE p \in cli[c].pid : TRUE
       IN  IF kill(pid) = "ok"
           THEN /\ proc' = [proc EXCEPT ![pid].term = Running(pid)]
                /\ cli' = [cli EXCEPT ![c].sigs = Append(@, "SIGTERM"), ![c].i = 0,
                                      ![c].pc = "wait"]
           ELSE /\ cli' = [cli EXCEPT ![c] = Finish(@, Err(<<"Failed to send SIGTERM">>), "")]
                /\ UNCHANGED proc
    /\ UNCHANGED <<pidFile, sockFiles, logFile, nextPid, dsess, csess>>

\* One iteration of "for _ in 0..10": the probe, the cleanup or the sleep.
DaemonManager_stop_wait(c) ==
    /\ cli[c].op = "stop" /\ cli[c].pc = "wait"
    /\ LET running == is_running
       IN  IF running.err
           THEN /\ cli' = [cli EXCEPT ![c] = Finish(@, Err(<<"Invalid PID in file">>), "")]
                /\ UNCHANGED <<pidFile, sockFiles>>
           ELSE IF ~running.val
           THEN /\ pidFile' = remove_file(pidFile)
                /\ sockFiles' = remove_socket(cli[c].sock)
                /\ cli' = [cli EXCEPT ![c] = Finish(@, Ok(NullResult), "Daemon stopped")]
           ELSE /\ cli' = [cli EXCEPT ![c].i = @ + 1,
                                      ![c].pc = IF cli[c].i + 1 = StopProbes THEN "kill" ELSE "wait"]
                /\ UNCHANGED <<pidFile, sockFiles>>
    /\ UNCHANGED <<logFile, nextPid, proc, dsess, csess>>

\* kill(pid, SIGKILL)?, then the unconditional cleanup.
DaemonManager_stop_kill(c) ==
    /\ cli[c].op = "stop" /\ cli[c].pc = "kill"
    /\ LET pid == CHOOSE p \in cli[c].pid : TRUE
       IN  IF kill(pid) = "ok"
           THEN /\ \E st \in EndStates(pid) :
                      proc' = [proc EXCEPT ![pid] = IF Running(pid) THEN Ended(pid, st) ELSE @]
                /\ dsess' = [dsess EXCEPT ![pid] = IF Running(pid) THEN abandoned(@) ELSE @]
                /\ pidFile' = remove_file(pidFile)
                /\ sockFiles' = remove_socket(cli[c].sock)
                /\ cli' = [cli EXCEPT ![c] = Finish([@ EXCEPT !.sigs = Append(@, "SIGKILL")],
                                                   Ok(NullResult), "Daemon stopped (forced)")]
           ELSE /\ cli' = [cli EXCEPT ![c] = Finish(@, Err(<<"Failed to send SIGKILL">>), "")]
                /\ UNCHANGED <<proc, dsess, pidFile, sockFiles>>
    /\ UNCHANGED <<logFile, nextPid, csess>>

(***************************************************************************)
(* DaemonManager::status.                                                  *)
(***************************************************************************)
\* What status prints about the daemon, given the probe's answer.
status_report(running) ==
    IF running.val THEN [running |-> TRUE, pid |-> pidFile.pid, socket |-> get_socket_path.path]
    ELSE NoReport

\* A cleanup that does not depend on the probe.
status_cleans_always(running) == pidFile.exists

\* A status without the cleanup.
status_cleans_never(running) == FALSE

\* The else arm of status with its "if self.pid_file.exists()".
status_cleans(running) == ~running.val /\ pidFile.exists

DaemonManager_status(c) ==
    /\ Free(c)
    /\ LET rec == [IdleCli EXCEPT !.op = "status"]
           running == is_running
       IN  IF running.err
           THEN /\ cli' = [cli EXCEPT ![c] = Finish(rec, Err(<<"Invalid PID in file">>), "")]
                /\ UNCHANGED <<pidFile, sockFiles>>
           ELSE /\ cli' = [cli EXCEPT ![c] =
                      Finish([rec EXCEPT !.report = status_report(running)], Ok(NullResult),
                             IF running.val THEN "Daemon is running" ELSE "Daemon is not running")]
                /\ IF status_cleans(running)
                   THEN /\ pidFile' = remove_file(pidFile)
                        /\ sockFiles' = remove_socket(get_socket_path.path)
                   ELSE UNCHANGED <<pidFile, sockFiles>>
    /\ csess' = [csess EXCEPT ![c] = NoSession]
    /\ UNCHANGED <<logFile, nextPid, proc, dsess>>

(***************************************************************************)
(* McpClient::start and one request, as main runs them on a fresh session. *)
(***************************************************************************)
\* McpClient::start up to the blocking read of initialize; a spawn failure
\* returns the error.
McpClient_start(c, rec) ==
    \/ /\ cli' = [cli EXCEPT ![c] = [rec EXCEPT !.sessions = @ + 1, !.pc = "handshake"]]
       /\ csess' = [csess EXCEPT ![c] = initialize_send(Spawned)]
    \/ /\ cli' = [cli EXCEPT ![c] = Finish([rec EXCEPT !.sessions = @ + 1],
                                           Err(<<"Failed to spawn MCP server">>), "")]
       /\ csess' = [csess EXCEPT ![c] = NoSession]

\* McpClient::start from the line read; on Ok main goes on to call_tool /
\* list_tools up to its blocking read.  On any Err the client is dropped.
McpClient_start_finish(c) ==
    /\ cli[c].pc = "handshake"
    /\ CanRead(csess[c])
    /\ LET r == initialize_finish(AfterRead(csess[c]), read_line(csess[c]))
           sent == request_send(r.sess, cli[c].method, cli[c].params)
       IN  IF ~r.res.ok
           THEN /\ cli' = [cli EXCEPT ![c] = Finish(@, r.res, "")]
                /\ csess' = [csess EXCEPT ![c] = drop(r.sess)]
           ELSE IF ~sent.ok
           THEN /\ cli' = [cli EXCEPT ![c] = Finish(@, Err(<<"Broken pipe">>), "")]
                /\ csess' = [csess EXCEPT ![c] = drop(sent.sess)]
           ELSE /\ cli' = [cli EXCEPT ![c].pc = "call_wait"]
                /\ csess' = [csess EXCEPT ![c] = sent.sess]
    /\ UNCHANGED <<pidFile, sockFiles, logFile, nextPid, proc, dsess>>

\* call_tool / list_tools from the line read; main prints the result or
\* returns the error, and the client is dropped.
McpClient_request_finish(c) ==
    /\ cli[c].pc = "call_wait"
    /\ CanRead(csess[c])
    /\ cli' = [cli EXCEPT ![c] = Finish(@, request_read(cli[c].method, read_line(csess[c])), "")]
    /\ csess' = [csess EXCEPT ![c] = drop(AfterRead(csess[c]))]
    /\ UNCHANGED <<pidFile, sockFiles, logFile, nextPid, proc, dsess>>

(***************************************************************************)
(* main, Commands::Call and Commands::ListTools; call_via_daemon.          *)
(***************************************************************************)
\* UnixStream::connect succeeds when the file is there and a listener is
\* bound to it.
CanConnect(p) == p \in sockFiles /\ Listening(p)

\* The dispatch condition without the capability flag.
use_daemon_if_running(supports) == ~is_running.err /\ is_running.val

\* profile.supports_daemon && daemon_mgr.is_running().unwrap_or(false).
use_daemon(supports) == supports /\ ~is_running.err /\ is_running.val

\* read_line without a timeout: it blocks until a line comes.
read_blocks(c) == FALSE

\* set_read_timeout(30 s): the read_line of call_via_daemon fails when no
\* line came in time (or the daemon closed the connection without one).
read_fails(c) == cli[c].resp = <<>>

\* Commands::Call: the dispatch.  Through the daemon: call_via_daemon up to
\* its blocking read (socket path, connect, request with the fixed id 1).
main_call(c, supports, params) ==
    /\ Free(c)
    /\ LET rec == [IdleCli EXCEPT !.op = "call", !.supports = supports,
                                  !.method = "tools/call", !.params = params]
           path == get_socket_path
       IN  IF use_daemon(supports)
           THEN IF ~path.err /\ \E p \in path.path : CanConnect(p)
                THEN LET p == CHOOSE q \in path.path : TRUE
                     IN  /\ Len(proc[p].backlog) < MaxBacklog
                         /\ proc' = [proc EXCEPT ![p].backlog =
                                Append(@, [peer |-> {c}, kind |-> "json",
                                           req |-> Request("tools/call", 1, params)])]
                         /\ cli' = [cli EXCEPT ![c] = [rec EXCEPT !.route = "daemon", !.connects = 1,
                                                                  !.conn = {p}, !.pc = "ipc_wait",
                                                                  !.sent = <<[kind |-> "json",
                                                                             req |-> Request("tools/call", 1, params)]>>]]
                         /\ csess' = [csess EXCEPT ![c] = NoSession]
                ELSE /\ McpClient_start(c, [rec EXCEPT !.route = "fallback", !.warned = TRUE,
                                                       !.connects = IF path.err THEN 0 ELSE 1,
                                                       !.ipc = <<Err(<<"Failed to connect to daemon">>)>>])
                     /\ UNCHANGED proc
           ELSE /\ McpClient_start(c, [rec EXCEPT !.route = "direct"])
                /\ UNCHANGED proc
    /\ UNCHANGED <<pidFile, sockFiles, logFile, nextPid, dsess>>

\* The client end of the connection is closed (the stream is dropped).
Closed(c) ==
    LET close(q) == [k \in 1..Len(q) |-> [q[k] EXCEPT !.peer = @ \ {c}]]
    IN  [p \in Pids |-> [proc[p] EXCEPT !.backlog = close(@), !.cur = close(@)]]

\* call_via_daemon from its read_line: the response line, or a read error
\* (timeout, end of file); then the match in main.
call_via_daemon_read(c) ==
    /\ cli[c].pc = "ipc_wait"
    /\ proc' = Closed(c)
    /\ \/ /\ cli[c].resp # <<>>
          /\ LET line == cli[c].resp[1]
                 r == IF line.kind # "json" THEN Err(<<"Invalid JSON-RPC response">>)
                      ELSE IF line.error # {}
                      THEN Err(<<"Daemon error">> \o (CHOOSE e \in line.error : TRUE))
                      ELSE Ok(line.result)
             IN  IF r.ok
                 THEN /\ cli' = [cli EXCEPT ![c] = Finish([@ EXCEPT !.ipc = <<r>>], r, "")]
                      /\ UNCHANGED csess
                 ELSE McpClient_start(c, [cli[c] EXCEPT !.ipc = <<r>>, !.route = "fallback",
                                                       !.warned = TRUE])
       \/ /\ read_fails(c)
          /\ McpClient_start(c, [cli[c] EXCEPT !.ipc = <<Err(<<"read failed">>)>>,
                                               !.route = "fallback", !.warned = TRUE])
    /\ UNCHANGED <<pidFile, sockFiles, logFile, nextPid, dsess>>

\* Commands::ListTools: always a fresh session.
main_list_tools(c) ==
    /\ Free(c)
    /\ McpClient_start(c, [IdleCli EXCEPT !.op = "list", !.route = "direct",
                                          !.method = "tools/list"])
    /\ UNCHANGED <<pidFile, sockFiles, logFile, nextPid, proc, dsess>>

(***************************************************************************)
(* The system: command-line invocations run one at a time; the daemon      *)
(* processes and the engines run beside them.                              *)
(***************************************************************************)
SeqClients == {"c1"}

Next ==
    \/ \E c \in SeqClients, supports \in BOOLEAN : DaemonManager_start_check(c, supports)
    \/ \E c \in SeqClients : DaemonManager_start_spawn(c)
    \/ \E c \in SeqClients : DaemonManager_start_poll(c)
    \/ \E c \in SeqClients : DaemonManager_stop_check(c)
    \/ \E c \in SeqClients : DaemonManager_stop_term(c)
    \/ \E c \in SeqClients : DaemonManager_stop_wait(c)
    \/ \E c \in SeqClients : DaemonManager_stop_kill(c)
    \/ \E c \in SeqClients : DaemonManager_status(c)
    \/ \E c \in SeqClients, supports \in BOOLEAN, params \in ToolCalls : main_call(c, supports, params)
    \/ \E c \in SeqClients : call_via_daemon_read(c)
    \/ \E c \in SeqClients : main_list_tools(c)
    \/ \E c \in SeqClients : McpClient_start_finish(c)
    \/ \E c \in SeqClients : McpClient_request_finish(c)
    \/ \E c \in SeqClients : engine_step_client(c, SomeInitLines, SomeLines)
    \/ \E p \in Pids : engine_step_daemon(p)
    \/ \E p \in Pids : run_daemon_fail_early(p)
    \/ \E p \in Pids : run_daemon_bind(p)
    \/ \E p \in Pids : run_daemon_start_session(p)
    \/ \E p \in Pids : run_daemon_handshake(p)
    \/ \E p \in Pids : handle_client_accept(p)
    \/ \E p \in Pids : handle_client_reply(p)
    \/ \E p \in Pids : daemon_sigterm(p)

Spec == Init /\ [][Next]_vars

(***************************************************************************)
(* One tool call on a fresh session, the engine answering with any line.   *)
(***************************************************************************)
NextCallTool ==
    \/ \E c \in SeqClients, params \in ToolCalls : main_call(c, FALSE, params)
    \/ \E c \in SeqClients : McpClient_start_finish(c)
    \/ \E c \in SeqClients : McpClient_request_finish(c)
    \/ \E c \in SeqClients : engine_step_client(c, SomeInitLines, AllLines)

SpecCallTool == Init /\ [][NextCallTool]_vars

(***************************************************************************)
(* Properties.                                                             *)
(***************************************************************************)
InitRequest == Request("initialize", 1, NoParams)
InitNotification == Notification("notifications/initialized")
IsToolRequest(m) == m.method \in {"tools/call", "tools/list"}
GoodLine(s) == s.stdout # <<>> /\ Head(s.stdout).kind = "json" /\ Head(s.stdout).error = {}

\* Whatever was written to an engine: a tools/call or tools/list request comes
\* after the initialize request and the initialized notification, and the
\* notification is the second line, right after the initialize request.
HandshakeFirst(s) ==
    \A k \in 1..Len(s.stdin) :
        /\ IsToolRequest(s.stdin[k]) => k > 2 /\ s.stdin[1] = InitRequest /\ s.stdin[2] = InitNotification
        /\ s.stdin[k] = InitNotification => k = 2 /\ s.stdin[1] = InitRequest

\* The step of a session on which the line after the initialize request is
\* written: the response just read parses and has no error member.
NotificationAfterGoodLine(s, t) ==
    Len(s.stdin) = 1 /\ Len(t.stdin) > 1 =>
        /\ s.stdin = <<InitRequest>>
        /\ GoodLine(s)
        /\ t.stdout = Tail(s.stdout)
        /\ t.stdin[2] = InitNotification

C1_Step ==
    /\ \A c \in Clients :
        /\ NotificationAfterGoodLine(csess[c], csess'[c])
        \* start returns Ok (main goes on to the request): the handshake was done
        /\ cli[c].pc = "handshake" /\ cli'[c].pc = "call_wait" =>
              /\ GoodLine(csess[c])
              /\ csess'[c].stdin[1] = InitRequest /\ csess'[c].stdin[2] = InitNotification
        \* a missing, unparsable or error response: start returns the error
        /\ cli[c].pc = "handshake" /\ cli'[c].pc # "handshake" /\ ~GoodLine(csess[c]) =>
              /\ cli'[c].pc = "done" /\ ~cli'[c].res.ok
        \* start returns an error: nothing but the initialize request was sent,
        \* and the engine of the failed session does not run on
        /\ cli[c].pc = "handshake" /\ cli'[c].pc = "done" =>
              /\ ~cli'[c].res.ok
              /\ csess'[c].stdin = <<InitRequest>>
              /\ csess'[c].child # "alive"
    /\ \A p \in Pids :
        /\ NotificationAfterGoodLine(dsess[p], dsess'[p])
        /\ proc[p].st = "handshake" /\ proc'[p].st = "serving" =>
              GoodLine(dsess[p]) /\ dsess'[p].stdin = <<InitRequest, InitNotification>>
        /\ proc[p].st = "handshake" /\ proc'[p].st = "handshake" => dsess'[p].stdin = dsess[p].stdin

C1_Inv ==
    /\ \A c \in Clients :
        /\ HandshakeFirst(csess[c])
        /\ cli[c].pc = "done" /\ cli[c].res.err = <<"Failed to spawn MCP server">> =>
              csess[c] = NoSession
    /\ \A p \in Pids : HandshakeFirst(dsess[p])

\* C1: McpClient::start returns a Ready session only after the initialize
\* request was written, a response line that parses and has no error member
\* was read, and the initialized notification was written, in this order; on
\* a spawn failure or a missing, unparsable or error response it returns an
\* error, leaves no session and sends no notification; no tools/call or
\* tools/list request is written to an engine before its handshake is done.
C1_HandshakeBeforeReady == [](C1_Inv) /\ [][C1_Step]_vars

\* C1 witness: start returned Ok and main wrote the tools/call request.
C1_Witness ==
    \E c \in Clients : /\ cli[c].pc = "call_wait"
                       /\ Len(csess[c].stdin) = 3
                       /\ csess[c].stdin[3].method = "tools/call"

IdOf(m) == CHOOSE n \in m.id : TRUE

FreshIds(s) ==
    /\ \A k \in 1..Len(s.stdin) :
        /\ s.stdin[k].method = "notifications/initialized" <=> s.stdin[k].id = {}
        /\ s.stdin[k].id # {} => IdOf(s.stdin[k]) <= s.request_id
    /\ \A j, k \in 1..Len(s.stdin) :
          j < k /\ s.stdin[j].id # {} /\ s.stdin[k].id # {} =>
              IdOf(s.stdin[j]) < IdOf(s.stdin[k])
    /\ Len(s.stdin) > 0 => s.stdin[1].id = {1}
    \* the notification did not advance the counter
    /\ Len(s.stdin) > 2 /\ s.stdin[2].id = {} => s.stdin[3].id = {2}

\* C2: on one session every request written carries an id strictly greater
\* than the id of every request written before it, the first being 1;
\* notifications carry no id and do not advance the counter.
C2_FreshIds == (\A c \in Clients : FreshIds(csess[c])) /\ (\A p \in Pids : FreshIds(dsess[p]))

\* C2 witness: a daemon's session after the handshake and two requests.
C2_Witness ==
    \E p \in Pids : /\ Len(dsess[p].stdin) = 4
                    /\ dsess[p].stdin[3].id = {2} /\ dsess[p].stdin[4].id = {3}

FirstText(result) ==
    IF result.content.kind = "array" /\ result.content.items # <<>>
    THEN Head(result.content.items).text ELSE <<>>

\* The three outcomes of call_tool for a response line.
Classified(line, res) ==
    /\ line.kind = "json" /\ line.error # {} =>
          ~res.ok /\ res.err[1] = "MCP Error"
    /\ line.kind = "json" /\ line.error = {} /\ line.result.isError = "true" =>
          /\ ~res.ok /\ Len(res.err) = 2 /\ res.err[1] = "Tool Error"
          /\ res.err[2] = (IF FirstText(line.result) = <<>> THEN "Tool execution failed"
                           ELSE FirstText(line.result)[1])
    /\ line.kind = "json" /\ line.error = {} /\ line.result.isError \in {"false", "absent"} =>
          res.ok /\ res.value = line.result
    /\ ~res.ok /\ res.err[1] = "MCP Error" => line.kind = "json" /\ line.error # {}
    /\ ~res.ok /\ res.err[1] = "Tool Error" =>
          line.kind = "json" /\ line.error = {} /\ line.result.isError = "true"
    /\ res.ok => line.kind = "json" /\ line.error = {} /\ line.result.isError # "true"

\* C3: call_tool puts every response into exactly one of three outcomes: an
\* error member is a protocol failure ("MCP Error"); a result with isError
\* true is a tool failure with the text of the first content item, or
\* "Tool execution failed" when there is no such text; a result with isError
\* false or absent is returned unchanged.
C3_CallToolOutcomes ==
    [][\A c \in Clients :
          cli[c].method = "tools/call" /\ cli[c].pc = "call_wait" /\ cli'[c].pc = "done" =>
              Classified(read_line(csess[c]), cli'[c].res)]_vars

\* C3 witness: a tool failure whose second content item has the other text.
C3_Witness ==
    \E c \in Clients : /\ cli[c].pc = "done" /\ cli[c].method = "tools/call"
                       /\ cli[c].res.err = <<"Tool Error", "boom">>
                       /\ csess[c].request_id = 2

DaemonLive == pidFile.exists /\ pidFile.parses /\ \E p \in pidFile.pid : proc[p].st \notin {"none", "dead"}

CallBegins(c) == cli[c].pc \in {"idle", "done"} /\ cli'[c] # cli[c] /\ cli'[c].op = "call"

C4_Step ==
    \A c \in Clients :
        CallBegins(c) =>
            /\ cli'[c].route \in {"daemon", "fallback"} <=> cli'[c].supports /\ DaemonLive
            /\ cli'[c].route \notin {"daemon", "fallback"} =>
                  /\ cli'[c].route = "direct"
                  /\ cli'[c].connects = 0 /\ cli'[c].sessions = 1
                  /\ proc' = proc

C4_Inv ==
    \A c \in Clients :
        cli[c].op = "call" /\ cli[c].route = "direct" =>
            /\ cli[c].connects = 0 /\ cli[c].sessions = 1 /\ cli[c].ipc = <<>>
            /\ cli[c].pc = "call_wait" =>
                  /\ csess[c].stdin[1] = InitRequest /\ csess[c].stdin[2] = InitNotification
                  /\ Len(csess[c].stdin) = 3

\* C4: the call goes through the socket client if and only if the profile
\* supports the daemon and the probe reports it running; otherwise no socket
\* connection is attempted and exactly one fresh session, with its own
\* handshake, is used.
C4_DaemonRoute == [](C4_Inv) /\ [][C4_Step]_vars

\* C4 witness: a call that ran on a fresh session although a daemon is live,
\* the profile lacking supports_daemon.
C4_Witness ==
    \E c \in Clients : /\ cli[c].op = "call" /\ cli[c].pc = "done" /\ cli[c].res.ok
                       /\ cli[c].route = "direct" /\ ~cli[c].supports
                       /\ DaemonLive /\ \E p \in pidFile.pid : proc[p].st = "serving"

C5_Inv ==
    \A c \in Clients :
        /\ cli[c].pc = "ipc_wait" => ENABLED call_via_daemon_read(c)
        /\ cli[c].op = "call" /\ cli[c].route = "fallback" =>
              /\ cli[c].warned
              /\ cli[c].ipc # <<>> /\ ~cli[c].ipc[1].ok
              /\ cli[c].sessions = 1 /\ cli[c].connects <= 1

C5_Step ==
    \A c \in Clients :
        cli[c].op = "call" /\ cli[c].route = "fallback" /\ cli[c].pc # "done" /\ cli'[c] # cli[c] =>
            /\ cli'[c].route = "fallback" /\ cli'[c].sessions = 1
            /\ cli'[c].connects = cli[c].connects
            /\ cli'[c].pc = "done" /\ cli[c].pc = "call_wait" =>
                  cli'[c].res = call_tool_read(read_line(csess[c]))
            /\ cli'[c].pc = "done" /\ cli[c].pc = "handshake" => ~cli'[c].res.ok

C6_DaemonSameAsDirect ==
    \A c \in Clients :
        cli[c].op = "call" /\ cli[c].ipc # <<>> /\ cli[c].served # <<>> =>
            cli[c].ipc[1] = call_tool_read(cli[c].served[1])

StartBegins(c) == cli[c].pc \in {"idle", "done"} /\ cli'[c] # cli[c] /\ cli'[c].op = "start"

\* C7: start returns an error when the profile has supports_daemon = false
\* or the probe reports a running daemon; in both cases no process is spawned
\* and the PID file, the log file and every socket file stay as they were.
C7_StartRefused ==
    [][\A c \in Clients :
          StartBegins(c) =>
              /\ ~cli'[c].supports \/ DaemonLive =>
                    /\ cli'[c].pc = "done" /\ ~cli'[c].res.ok
                    /\ cli'[c].res.err = IF ~cli'[c].supports
                                         THEN <<"does not support daemon mode">>
                                         ELSE <<"Daemon already running">>
                    /\ UNCHANGED <<pidFile, sockFiles, logFile, nextPid, proc>>
              /\ cli'[c].pc # "done" => cli'[c].supports /\ ~DaemonLive]_vars

\* C7 witness: start refused while a daemon is serving, after an earlier
\* start had created the log file.
C7_Witness ==
    \E c \in Clients : /\ cli[c].op = "start" /\ cli[c].pc = "done"
                       /\ cli[c].res.err = <<"Daemon already running">>
                       /\ cli[c].supports /\ DaemonLive /\ logFile = "written"

C8_Inv ==
    \A c \in Clients :
        /\ cli[c].op = "start" /\ cli[c].pc = "poll" =>
              /\ cli[c].i < StartPolls
              /\ ENABLED DaemonManager_start_poll(c)
        /\ cli[c].op = "start" /\ cli[c].pc = "done" /\ cli[c].res.ok =>
              /\ pidFile.exists /\ pidFile.parses /\ pidFile.pid = cli[c].pid
              /\ cli[c].pid # {} /\ cli[c].pid \subseteq sockFiles
        /\ cli[c].op = "start" /\ cli[c].pc = "done"
              /\ cli[c].res.err = <<"Daemon failed to start">> => ~pidFile.exists

C8_Step ==
    \A c \in Clients :
        cli[c].op = "start" /\ cli[c].pc = "poll" /\ cli'[c] # cli[c] =>
            /\ \/ cli'[c].pc = "done"
               \/ cli'[c].pc = "poll" /\ cli'[c].i = cli[c].i + 1 /\ cli[c].i + 1 < StartPolls
            /\ cli'[c].pc = "done" /\ cli'[c].res.ok => cli[c].pid \subseteq sockFiles
            /\ cli'[c].pc = "done" /\ ~cli'[c].res.ok =>
                  /\ cli[c].pid \cap sockFiles = {}
                  /\ ~pidFile'.exists
            /\ cli[c].i = StartPolls - 1 /\ cli[c].pid \cap sockFiles = {} =>
                  /\ cli'[c].pc = "done"
                  /\ cli'[c].res = Err(<<"Daemon failed to start">>)

\* C8: once start has spawned the daemon it ends after at most 50 polls of
\* the socket path; it returns success only where the PID file holds the
\* child's pid and the socket file of that pid exists; if the socket has not
\* appeared by the end of the polls it returns a failure and the PID file is
\* gone.
C8_StartPollBound == [](C8_Inv) /\ [][C8_Step]_vars

\* C8 witness: the 50 polls ran out.
C8_Witness ==
    \E c \in Clients : /\ cli[c].op = "start" /\ cli[c].pc = "done"
                       /\ cli[c].res.err = <<"Daemon failed to start">>
                       /\ cli[c].pid # {} /\ ~pidFile.exists

StopSucceeded(c) == cli[c].op = "stop" /\ cli[c].pc = "done" /\ cli[c].res.ok

C9_Inv ==
    \A c \in Clients :
        StopSucceeded(c) =>
            /\ cli[c].out \in {"Daemon stopped", "Daemon stopped (forced)"}
            /\ ~pidFile.exists
            /\ cli[c].pid # {} /\ cli[c].pid \cap sockFiles = {}
            /\ \A p \in cli[c].pid : proc[p].st = "dead"

C9_Step ==
    \A c \in Clients :
        StopSucceeded(c) /\ cli'[c].op = "status" =>
            /\ cli'[c].pc = "done" /\ cli'[c].res.ok
            /\ ~cli'[c].report.running /\ cli'[c].out = "Daemon is not running"
            /\ ~pidFile'.exists /\ cli[c].pid \cap sockFiles' = {}

\* C9: whenever stop returns success, graceful or forced, the PID file and
\* the socket file of the pid it held are absent, and a status that follows
\* with no start in between reports the daemon as not running.
C9_StopRemovesFiles == [](C9_Inv) /\ [][C9_Step]_vars

\* C9 witness: a forced stop that succeeded.
C9_Witness ==
    \E c \in Clients : /\ StopSucceeded(c) /\ cli[c].out = "Daemon stopped (forced)"
                       /\ cli[c].sigs = <<"SIGTERM", "SIGKILL">>

\* C10: a stop that found the daemon alive and sent SIGTERM never ends in an
\* error, however and whenever the daemon dies: it removes both files and
\* reports a stopped or stopped (forced) outcome.
C10_StopNeverFails ==
    \A c \in Clients :
        cli[c].op = "stop" /\ cli[c].pc = "done" /\ cli[c].sigs # <<>> =>
            /\ cli[c].res.ok
            /\ ~pidFile.exists /\ cli[c].pid \cap sockFiles = {}

StatusStep(c) == cli[c].pc \in {"idle", "done"} /\ cli'[c] # cli[c] /\ cli'[c].op = "status"

\* What a status call would print in the state as it is.
StatusNow ==
    IF DaemonLive THEN [running |-> TRUE, pid |-> pidFile.pid, socket |-> pidFile.pid]
    ELSE NoReport

\* C11: status on a live daemon deletes neither the PID file nor the socket
\* file and reports liveness, pid and socket path; a status called again
\* right after a status, nothing else having changed, reports the same, on a
\* live daemon and on a stale state alike.
C11_StatusIdempotent ==
    [][\A c \in Clients :
          StatusStep(c) =>
              /\ DaemonLive =>
                    /\ UNCHANGED <<pidFile, sockFiles, logFile, proc, dsess>>
                    /\ cli'[c].res.ok /\ cli'[c].out = "Daemon is running"
                    /\ cli'[c].report = [running |-> TRUE, pid |-> pidFile.pid,
                                         socket |-> pidFile.pid]
              \* the state the call leaves is one in which the next call
              \* prints the same report and has nothing to remove
              /\ cli'[c].res.ok =>
                    /\ cli'[c].report = StatusNow'
                    /\ ~cli'[c].report.running => ~pidFile'.exists]_vars

\* C11 witness: status reported a daemon that is serving, its files in place.
C11_Witness ==
    \E c \in Clients : /\ cli[c].op = "status" /\ cli[c].pc = "done"
                       /\ cli[c].report.running /\ cli[c].report.pid = pidFile.pid
                       /\ \E p \in pidFile.pid : proc[p].st = "serving" /\ p \in sockFiles

StalePidFile == pidFile.exists /\ pidFile.parses /\ \A p \in pidFile.pid : ~ProcessExists(p)

\* C12: when the PID file holds a parsable pid of a process that does not
\* exist, status reports not running, returns success, and afterwards
\* neither the PID file nor the socket file of that pid exists.
C12_StatusCleansStale ==
    [][\A c \in Clients :
          StatusStep(c) /\ StalePidFile =>
              /\ cli'[c].pc = "done" /\ cli'[c].res.ok
              /\ ~cli'[c].report.running /\ cli'[c].out = "Daemon is not running"
              /\ ~pidFile'.exists
              /\ pidFile.pid \cap sockFiles' = {}
              /\ sockFiles' = sockFiles \ pidFile.pid]_vars

\* C12 witness: status found the files of the one daemon ever spawned, which
\* had ended by itself after binding its socket, and removed them.
C12_Witness ==
    \E c \in Clients : /\ cli[c].op = "status" /\ cli[c].pc = "done" /\ cli[c].res.ok
                       /\ ~cli[c].report.running
                       /\ nextPid = 2 /\ proc[1].st = "dead" /\ dsess[1].child = "killed"
                       /\ ~pidFile.exists /\ sockFiles = {}

(***************************************************************************)
(* The liveness probe on what may be found on disk and in the process      *)
(* table: no PID file, a PID file that is not a number, the pid of a       *)
(* process that is gone, that is a daemon of ours, or that belongs to      *)
(* another user.                                                           *)
(***************************************************************************)
FoundProcs == {[NoProc EXCEPT !.st = st] : st \in {"none", "dead", "foreign", "spawned"}}
FoundFiles == {NoFile, GarbageFile} \cup {PidText(p) : p \in Pids}

InitFound ==
    /\ pidFile \in FoundFiles
    /\ sockFiles \in SUBSET Pids
    /\ logFile = "empty"
    /\ nextPid = MaxPid + 1
    /\ proc \in [Pids -> FoundProcs]
    /\ dsess = [p \in Pids |-> NoSession]
    /\ cli = [c \in Clients |-> IdleCli]
    /\ csess = [c \in Clients |-> NoSession]

\* One call of is_running; out keeps what kill returned ("" when it was not
\* called).  "other" is the Err(_) arm, whatever errno that may be.
is_running_call(c) ==
    /\ Free(c)
    /\ LET called == pidFile.exists /\ pidFile.parses
           ks == IF called THEN {kill(CHOOSE p \in pidFile.pid : TRUE), "other"} ELSE {""}
       IN  \E k \in ks :
             LET r == is_running_of(pidFile, k)
             IN  cli' = [cli EXCEPT ![c] =
                     Finish([IdleCli EXCEPT !.op = "probe", !.report = [NoReport EXCEPT !.running = r.val]],
                            IF r.err THEN Err(<<"Invalid PID in file">>) ELSE Ok(NullResult), k)]
    /\ UNCHANGED <<pidFile, sockFiles, logFile, nextPid, proc, dsess, csess>>

NextProbe == \E c \in SeqClients : is_running_call(c)

SpecProbe == InitFound /\ [][NextProbe]_vars

ProbeStep(c) == cli'[c].op = "probe" /\ cli'[c] # cli[c]

\* C13: is_running answers not running without a PID file, running when the
\* existence test succeeds, not running on ESRCH, running on EPERM, not
\* running on any other error of the test; it sends no signal and changes no
\* file.
C13_ProbeMapping ==
    [][\A c \in Clients :
          ProbeStep(c) =>
              /\ UNCHANGED <<pidFile, sockFiles, logFile, proc, dsess>>
              /\ ~pidFile.exists => cli'[c].res.ok /\ ~cli'[c].report.running /\ cli'[c].out = ""
              /\ cli'[c].out = "ok" =>
                    /\ cli'[c].res.ok /\ cli'[c].report.running
                    /\ \E p \in pidFile.pid : proc[p].st \notin {"none", "dead", "foreign"}
              /\ cli'[c].out = "ESRCH" =>
                    /\ cli'[c].res.ok /\ ~cli'[c].report.running
                    /\ \E p \in pidFile.pid : proc[p].st \in {"none", "dead"}
              /\ cli'[c].out = "EPERM" =>
                    /\ cli'[c].res.ok /\ cli'[c].report.running
                    /\ \E p \in pidFile.pid : proc[p].st = "foreign"
              /\ cli'[c].out = "other" => cli'[c].res.ok /\ ~cli'[c].report.running
              /\ pidFile.exists /\ pidFile.parses => cli'[c].out \in KillResults]_vars

\* C13 witness: the pid in the file is a process of another user; the probe
\* said running.
C13_Witness ==
    \E c \in Clients : /\ cli[c].op = "probe" /\ cli[c].out = "EPERM"
                       /\ cli[c].res.ok /\ cli[c].report.running
                       /\ \E p \in pidFile.pid : proc[p].st = "foreign"

(***************************************************************************)
(* The commands on a PID file whose text is not a number.                  *)
(***************************************************************************)
InitGarbage ==
    /\ pidFile = GarbageFile
    /\ sockFiles \in SUBSET Pids
    /\ logFile = "empty"
    /\ nextPid = MaxPid + 1
    /\ proc \in [Pids -> {[NoProc EXCEPT !.st = st] : st \in {"none", "dead", "foreign"}}]
    /\ dsess = [p \in Pids |-> NoSession]
    /\ cli = [c \in Clients |-> IdleCli]
    /\ csess = [c \in Clients |-> NoSession]

NextGarbage ==
    \/ \E c \in SeqClients, supports \in BOOLEAN : DaemonManager_start_check(c, supports)
    \/ \E c \in SeqClients : DaemonManager_stop_check(c)
    \/ \E c \in SeqClients : DaemonManager_status(c)
    \/ \E c \in SeqClients, supports \in BOOLEAN, params \in ToolCalls : main_call(c, supports, params)
    \/ \E c \in SeqClients : main_list_tools(c)
    \/ \E c \in SeqClients : McpClient_start_finish(c)
    \/ \E c \in SeqClients : McpClient_request_finish(c)
    \/ \E c \in SeqClients : engine_step_client(c, SomeInitLines, SomeLines)

SpecGarbage == InitGarbage /\ [][NextGarbage]_vars

\* C14: with a PID file that does not parse as a pid, daemon start, stop,
\* status and the tool call all end in an error; none of them goes on as if
\* the daemon were not running (the call starts no session).
C14_GarbageIsError ==
    \A c \in Clients :
        ~pidFile.parses /\ pidFile.exists /\ cli[c].op \in {"start", "stop", "status", "call"} =>
            /\ cli[c].pc = "done" /\ ~cli[c].res.ok
            /\ cli[c].sessions = 0


\* C15: whenever start, stop, status or the tool call finds a PID file whose
\* process is not alive, it has deleted the PID file and the socket file of
\* that pid when it returns.
C15_SelfHealing ==
    [][\A c \in Clients :
          /\ cli[c].pc \in {"idle", "done"} /\ cli'[c] # cli[c]
          /\ cli'[c].op \in {"start", "stop", "status", "call"}
          /\ cli'[c].op \in {"start", "call"} => cli'[c].supports
          /\ StalePidFile
          /\ cli'[c].pc = "done"
          => /\ ~pidFile'.exists
             /\ pidFile.pid \cap sockFiles' = {}]_vars

(***************************************************************************)
(* The daemon's socket server with any clients: programs that connect to   *)
(* the socket, write one line of any kind, and read or leave.              *)
(***************************************************************************)
MaxQueue == 2

\* The lines a client may write: a tools/call with and without id, a
\* tools/list, an unknown method, no method, no tool name, text that is not
\* JSON, and a valid request padded beyond MAX_REQUEST_SIZE.
NoMethod == [method |-> "", id |-> {}, params |-> NoParams]
RawLines ==
    {[kind |-> "json", req |-> r] :
        r \in {Request("tools/call", 1, t) : t \in ToolCalls}
              \cup {[method |-> "tools/call", id |-> {}, params |-> t] : t \in ToolCalls}
              \cup {Request("tools/list", 2, NoParams), Request("bogus", 3, NoParams),
                    NoMethod, Request("tools/call", 1, NoParams)}}
    \cup {[kind |-> "garbage", req |-> NoMethod]}
    \cup {[kind |-> "oversize", req |-> Request("tools/call", 1, t)] : t \in ToolCalls}

\* The session of a daemon that has entered its accept loop.
ServingSession ==
    LET s == initialize_send(Spawned)
    IN  writeln([s EXCEPT !.answered = 1], Notification("notifications/initialized"))

\* A daemon started by start-daemon, its handshake done, in listener.incoming().
InitServer ==
    /\ pidFile = PidText(1)
    /\ sockFiles = {1}
    /\ logFile = "written"
    /\ nextPid = 2
    /\ proc = [p \in Pids |-> IF p = 1 THEN [NoProc EXCEPT !.st = "serving"] ELSE NoProc]
    /\ dsess = [p \in Pids |-> IF p = 1 THEN ServingSession ELSE NoSession]
    /\ cli = [c \in Clients |-> IdleCli]
    /\ csess = [c \in Clients |-> NoSession]

\* connect() and the write of one line.
raw_connect(c, p, line) ==
    /\ Free(c)
    /\ CanConnect(p)
    /\ Len(proc[p].backlog) + Len(proc[p].cur) < MaxQueue
    /\ proc' = [proc EXCEPT ![p].backlog = Append(@, [peer |-> {c}, kind |-> line.kind,
                                                      req |-> line.req])]
    /\ cli' = [cli EXCEPT ![c] = [IdleCli EXCEPT !.op = "raw", !.pc = "raw_wait", !.conn = {p},
                                                 !.connects = 1, !.sent = <<line>>]]
    /\ csess' = [csess EXCEPT ![c] = NoSession]
    /\ UNCHANGED <<pidFile, sockFiles, logFile, nextPid, dsess>>

\* The client closes its end, at any time: with the response, at end of file,
\* or without waiting.
raw_finish(c) ==
    /\ cli[c].pc = "raw_wait"
    /\ cli' = [cli EXCEPT ![c] = Finish(@, IF cli[c].resp # <<>> THEN Ok(NullResult)
                                           ELSE Err(<<"no response">>), "")]
    /\ proc' = Closed(c)
    /\ UNCHANGED <<pidFile, sockFiles, logFile, nextPid, dsess, csess>>

NextServer ==
    \/ \E c \in Clients, p \in Pids, line \in RawLines : raw_connect(c, p, line)
    \/ \E c \in Clients : raw_finish(c)
    \/ \E p \in Pids : handle_client_accept(p)
    \/ \E p \in Pids : handle_client_reply(p)
    \/ \E p \in Pids : engine_step_daemon(p)

SpecServer == InitServer /\ [][NextServer]_vars

\* The state InitServer starts from, as start-daemon and run_daemon reach it.
ServerReached ==
    /\ pidFile = PidText(1) /\ sockFiles = {1} /\ logFile = "written" /\ nextPid = 2
    /\ proc = [p \in Pids |-> IF p = 1 THEN [NoProc EXCEPT !.st = "serving"] ELSE NoProc]
    /\ dsess = [p \in Pids |-> IF p = 1 THEN ServingSession ELSE NoSession]

\* C16: for every connection the server accepts, whatever line the client
\* sent, the server has written exactly one response line, an envelope with
\* the id of the request, when it closes the connection.
C16_OneResponseLine ==
    \A c \in Clients :
        cli[c].op = "raw" /\ cli[c].hung =>
            /\ Len(cli[c].resp) = 1
            /\ cli[c].resp[1].kind = "json"
            /\ cli[c].resp[1].id = cli[c].sent[1].req.id


\* The daemon finished a connection on this step: it left the backlog without
\* becoming the one being handled, or it was the one being handled.
Serviced(p) ==
    \/ /\ proc[p].backlog # <<>> /\ Len(proc'[p].backlog) = Len(proc[p].backlog) - 1
       /\ proc'[p].cur = <<>>
    \/ proc[p].cur # <<>> /\ proc'[p].cur = <<>>

C17_Inv ==
    \A p \in Pids :
        proc[p].st # "none" =>
            /\ proc[p].st \in {"serving", "busy"}
            /\ proc[p].st = "serving" /\ proc[p].backlog # <<>> /\ dsess[p].request_id < MaxReq =>
                  ENABLED handle_client_accept(p)
            /\ proc[p].st = "busy" /\ CanRead(dsess[p]) => ENABLED handle_client_reply(p)

\* C17: no client behaviour and no failure of the session ends the accept
\* loop: after a connection that ended in any error (malformed or oversized
\* request, client gone, tool error, protocol error, unparsable engine line,
\* engine exited) the daemon is back in accept and takes the next connection.
C17_AcceptLoopSurvives ==
    [](C17_Inv) /\ [][\A p \in Pids : Serviced(p) => proc'[p].st = "serving"]_vars

\* C17 witness: a client was hung up on without a response (its request was
\* malformed), the engine has exited, and the daemon is handling the other
\* client's request.
C17_Witness ==
    \E c, d \in Clients :
        /\ c # d
        /\ cli[c].op = "raw" /\ cli[c].hung /\ cli[c].resp = <<>>
        /\ proc[1].st = "busy" /\ Head(proc[1].cur).peer = {d}
        /\ dsess[1].child = "exited"

OutstandingRequests(s) == NumRequests(s) - (s.answered - Len(s.stdout))

C18_Inv ==
    \A p \in Pids :
        /\ Len(proc[p].cur) <= 1
        /\ proc[p].st = "busy" <=> proc[p].cur # <<>>
        /\ OutstandingRequests(dsess[p]) <= 1
        /\ proc[p].st = "serving" /\ dsess[p].child = "alive" => OutstandingRequests(dsess[p]) = 0

C18_Step ==
    \A p \in Pids :
        /\ Len(dsess'[p].stdin) > Len(dsess[p].stdin) /\ proc[p].st # "none" =>
              \* a request is written only when nothing is in progress
              /\ proc[p].cur = <<>> /\ OutstandingRequests(dsess[p]) = 0
              /\ dsess[p].stdout = <<>>
              /\ Len(dsess'[p].stdin) = Len(dsess[p].stdin) + 1
              \* and it is the request of the connection now being handled
              /\ Len(proc'[p].cur) = 1
              /\ dsess'[p].stdin[Len(dsess'[p].stdin)].method = Head(proc'[p].cur).req.method
        \* the connection being handled is left only by its own response
        /\ proc[p].cur # <<>> /\ proc'[p].cur # <<>> => Head(proc'[p].cur).req = Head(proc[p].cur).req

\* C18: with clients connecting concurrently the daemon handles one
\* connection at a time to completion: at most one connection is being
\* handled, at most one request is outstanding on the engine session, and a
\* request is written to the engine only when the one before it is done.
C18_OneAtATime == [](C18_Inv) /\ [][C18_Step]_vars

\* C18 witness: one client's request is outstanding on the engine while the
\* other client's connection waits in the backlog.
C18_Witness ==
    \E c, d \in Clients :
        /\ c # d /\ cli[c].pc = "raw_wait" /\ cli[d].pc = "raw_wait"
        /\ proc[1].st = "busy" /\ Head(proc[1].cur).peer = {c}
        /\ Len(proc[1].backlog) = 1 /\ Head(proc[1].backlog).peer = {d}
        /\ OutstandingRequests(dsess[1]) = 1


C19_Inv ==
    \A c \in Clients :
        cli[c].op \in {"call", "list"} /\ cli[c].pc = "done" => csess[c].child # "alive"

C19_Step ==
    /\ \A c \in Clients :
          \* the command returns from its session: the engine was killed
          \* unless it had exited by itself
          cli[c].pc \in {"handshake", "call_wait"} /\ cli'[c].pc = "done" =>
              /\ csess[c].child = "alive" => csess'[c].child = "killed"
              /\ csess[c].child # "alive" => csess'[c].child = csess[c].child
    /\ \A p \in Pids :
          \* the daemon's McpClient::start fails in the handshake
          /\ proc[p].st = "handshake" /\ proc'[p].st \in {"zombie", "dead"}
          /\ ~proc[p].term /\ cli' = cli
          => dsess'[p].child # "alive"

\* C19: the engine process of a session is killed when its owner is done
\* with it, on every exit path: a handshake failure inside start, and a
\* transient call or list-tools that ends in success, in a tool error, in a
\* protocol error or in an I/O error; after a transient call has returned
\* no engine spawned for it is running.
C19_EngineKilled == [](C19_Inv) /\ [][C19_Step]_vars

\* C19 witness: a fallback call ended in a tool error and its engine was
\* killed.
C19_Witness ==
    \E c \in Clients : /\ cli[c].op = "call" /\ cli[c].pc = "done" /\ cli[c].route = "fallback"
                       /\ cli[c].res.err = <<"Tool Error", "boom">>
                       /\ csess[c].child = "killed"

(***************************************************************************)
(* DaemonManager::new on any server name.                                  *)
(***************************************************************************)
\* A command line naming any server: the process is about to build its
\* DaemonManager.
InitSanitize ==
    /\ pidFile = NoFile
    /\ sockFiles = {}
    /\ logFile = "absent"
    /\ nextPid = 1
    /\ proc = [p \in Pids |-> NoProc]
    /\ dsess = [p \in Pids |-> NoSession]
    /\ \E name \in NamesUpTo(MaxLen) :
          cli = [c \in Clients |-> IF c \in SeqClients
                                    THEN [IdleCli EXCEPT !.op = "new", !.pc = "new",
                                                         !.name = name]
                                    ELSE IdleCli]
    /\ csess = [c \in Clients |-> NoSession]

\* new, up to `let profile_dir`: the directory name is the sanitized name.
DaemonManager_new(c) ==
    /\ cli[c].pc = "new"
    /\ cli' = [cli EXCEPT ![c] = Finish([@ EXCEPT !.dir = sanitize_server_name(cli[c].name)],
                                        Ok(NullResult), "")]
    /\ UNCHANGED <<pidFile, sockFiles, logFile, nextPid, proc, dsess, csess>>

NextSanitize == \E c \in SeqClients : DaemonManager_new(c)

SpecSanitize == InitSanitize /\ [][NextSanitize]_vars

\* C20 as claimed: the sanitized name is made only of characters in
\* [A-Za-z0-9_-].
C20_AsciiOnly ==
    \A c \in Clients :
        cli[c].op = "new" /\ cli[c].pc = "done" =>
            \A k \in 1..Len(cli[c].dir) : cli[c].dir[k] \in AsciiAlnum \cup {"-", "_"}

\* The positions of a name whose character is a letter or digit of any
\* script, a hyphen or an underscore.
KeptPositions(name) ==
    {i \in 1..Len(name) : name[i] \in AsciiAlnum \cup {"e'", "-", "_"}}

\* C20: the sanitized name is made only of letters and digits (of any
\* script, not only ASCII), hyphens and underscores, so no '/' and no '.'
\* survives; it is the name with exactly the other characters left out, in
\* the original order; sanitizing it again changes nothing.
C20_Sanitized ==
    \A c \in Clients :
        cli[c].op = "new" /\ cli[c].pc = "done" =>
            LET name == cli[c].name
                dir == cli[c].dir
            IN  /\ \A k \in 1..Len(dir) : dir[k] \notin {"/", "."}
                /\ \A k \in 1..Len(dir) : dir[k] \in AsciiAlnum \cup {"e'", "-", "_"}
                /\ Len(dir) = Cardinality(KeptPositions(name))
                /\ \A i \in KeptPositions(name) :
                      dir[Cardinality({j \in KeptPositions(name) : j <= i})] = name[i]
                /\ sanitize_server_name(dir) = dir

\* C20 witness: a name with a separator, a dot and a letter outside ASCII.
C20_Witness ==
    \E c \in Clients : /\ cli[c].op = "new" /\ cli[c].pc = "done"
                       /\ cli[c].name = <<".", "/", "e'">>
                       /\ cli[c].dir = <<"e'">>

(***************************************************************************)
(* The socket path, in the three places that compute it.                   *)
(***************************************************************************)
Digits == <<"0", "1", "2", "3", "4", "5", "6", "7", "8", "9">>

\* child_pid.to_string(), Display of std::process::id(), and the trimmed
\* text of a PID file start wrote: the decimal digits of the pid.
RECURSIVE decimal(_)
decimal(n) == IF n < 10 THEN <<Digits[n + 1]>>
              ELSE decimal(n \div 10) \o <<Digits[(n % 10) + 1]>>

\* PathBuf::from("/tmp/.mcp")
SocketDir == <<"/", "tmp", "/", ".mcp">>

\* PathBuf::join: a component that starts at the root replaces the base.
join(base, rel) == IF rel # <<>> /\ Head(rel) = "/" THEN rel ELSE base \o <<"/">> \o rel

\* PathBuf::from("/tmp/.mcp").join(format!("{}-{}.sock", server_name, pid))
socket_path(server_name, pid) == join(SocketDir, server_name \o <<"-">> \o pid \o <<".sock">>)

\* start: expected_socket, from self.server_name and child_pid.
start_expected_socket(c, p) ==
    /\ cli[c].op = "new" /\ cli[c].pc = "done"
    /\ cli' = [cli EXCEPT ![c].op = "expected_socket", ![c].pid = {p},
                          ![c].path = socket_path(cli[c].name, decimal(p))]
    /\ UNCHANGED <<pidFile, sockFiles, logFile, nextPid, proc, dsess, csess>>

\* get_socket_path (call_via_daemon, stop, status) on the PID file of pid p.
get_socket_path_call(c, p) ==
    /\ cli[c].op = "new" /\ cli[c].pc = "done"
    /\ cli' = [cli EXCEPT ![c].op = "get_socket_path", ![c].pid = {p},
                          ![c].path = socket_path(cli[c].name, decimal(p))]
    /\ UNCHANGED <<pidFile, sockFiles, logFile, nextPid, proc, dsess, csess>>

\* run_daemon in the process p that start spawned with --server <name>.
run_daemon_socket_path(c, p) ==
    /\ cli[c].op = "new" /\ cli[c].pc = "done"
    /\ cli' = [cli EXCEPT ![c].op = "run_daemon", ![c].pid = {p},
                          ![c].path = socket_path(cli[c].name, decimal(p))]
    /\ UNCHANGED <<pidFile, sockFiles, logFile, nextPid, proc, dsess, csess>>

NextPaths ==
    \/ \E c \in SeqClients : DaemonManager_new(c)
    \/ \E c \in SeqClients, p \in Pids : start_expected_socket(c, p)
    \/ \E c \in SeqClients, p \in Pids : get_socket_path_call(c, p)
    \/ \E c \in SeqClients, p \in Pids : run_daemon_socket_path(c, p)

SpecPaths == InitSanitize /\ [][NextPaths]_vars

\* C21: wherever the socket path is computed (the daemon's bind, the poll of
\* start, get_socket_path), for every identifier and pid it is
\* <socket dir>/<sanitized identifier>-<pid>.sock: the identifier enters the
\* path only in sanitized form.
C21_SocketPathSanitized ==
    \A c \in Clients :
        cli[c].path # <<>> =>
            cli[c].path = SocketDir \o <<"/">> \o sanitize_server_name(cli[c].name) \o <<"-">>
                              \o decimal(CHOOSE p \in cli[c].pid : TRUE) \o <<".sock">>


\* The process start spawned has exited and left no socket file.
ExitedWithoutSocket(c) ==
    \E p \in cli[c].pid : proc[p].st \in {"zombie", "dead"} /\ ~socket_exists(p)

C22_Step ==
    \A c \in Clients :
        /\ cli[c].op = "start" /\ cli[c].pc = "poll" /\ cli[c].i = MidCheckAt
        /\ ExitedWithoutSocket(c)
        /\ cli'[c] # cli[c]
        => /\ cli'[c].pc = "done"
           /\ cli'[c].res = Err(<<"Daemon process exited unexpectedly">>)
           /\ ~pidFile'.exists

\* C22: when the daemon process start spawned has exited without creating
\* its socket by the liveness check of the poll loop (i = 20), start fails at
\* that check with "exited unexpectedly" and removes the PID file; it does
\* not go on polling to the timeout.
C22_FailFast == [][C22_Step]_vars

(***************************************************************************)
(* Two start-daemon commands for the same server at once.                  *)
(***************************************************************************)
NextRace ==
    \/ \E c \in Clients : DaemonManager_start_check(c, TRUE)
    \/ \E c \in Clients : DaemonManager_start_spawn(c)
    \/ \E c \in Clients : DaemonManager_start_poll(c)
    \/ \E p \in Pids : run_daemon_fail_early(p)
    \/ \E p \in Pids : run_daemon_bind(p)

SpecRace == Init /\ [][NextRace]_vars

\* A start begins: its first step, from the command line to the probe.
StartCheckStep(c) == cli[c].pc \in {"idle", "done"} /\ cli'[c] # cli[c] /\ cli'[c].op = "start"

\* C23: a start that begins when the PID file names a live daemon process
\* fails with "already running", whatever the other invocation is doing;
\* nothing else excludes two starts from each other (the witness is the
\* interleaving in which both pass the probe before either writes the PID
\* file, both spawn a daemon, and the PID file names one of the two).
C23_StartNotExcluded ==
    [][\A c \in Clients :
          StartCheckStep(c) /\ (\E p \in pidFile.pid : Running(p)) =>
              /\ cli'[c].pc = "done"
              /\ cli'[c].res = Err(<<"Daemon already running">>)
              /\ UNCHANGED <<pidFile, proc, nextPid>>]_vars

\* C23 witness: two live daemons, each spawned by one of the two starts, and
\* a PID file that names only the second.
C23_Witness ==
    /\ cli["c1"].op = "start" /\ cli["c2"].op = "start"
    /\ cli["c1"].pid # {} /\ cli["c2"].pid # {} /\ cli["c1"].pid # cli["c2"].pid
    /\ \A p \in cli["c1"].pid \cup cli["c2"].pid : Running(p)
    /\ pidFile.exists /\ pidFile.pid = cli["c2"].pid


\* C24: one orchestrated tool call is executed by at most one engine: when
\* the daemon's session has written the call's request to its engine and read
\* the answer (a result, a tool error or a protocol error), no tools/call
\* request of the same call is written to the engine of a fresh session.
C24_ExecutedOnce ==
    \A c \in Clients :
        cli[c].op = "call" /\ cli[c].served # <<>> =>
            \A k \in 1..Len(csess[c].stdin) : csess[c].stdin[k].method # "tools/call"

(***************************************************************************)
(* A daemon's session with an engine whose lines carry the id of the       *)
(* request they answer, and which may write a line nobody asked for (a     *)
(* notification, a log message) while a request is pending.                *)
(***************************************************************************)
Tagged(line, id) == [kind |-> line.kind, error |-> line.error, result |-> line.result, id |-> id]

\* The requests written to the engine, in order.
RequestsOf(s) == SelectSeq(s.stdin, LAMBDA m : m.id # {})

EngineStepsTagged(s) ==
    IF s.child # "alive" THEN {}
    ELSE {[s EXCEPT !.child = "exited"]}
         \cup (IF NumRequests(s) > s.answered
               THEN {[s EXCEPT !.stdout = Append(@, Tagged(l, RequestsOf(s)[s.answered + 1].id)),
                               !.answered = @ + 1] : l \in SomeLines}
                    \cup (IF s.stdout = <<>>
                          THEN {[s EXCEPT !.stdout = Append(@, Tagged(JsonLine({}, NullResult), {}))]}
                          ELSE {})
               ELSE {})

engine_step_tagged(p) ==
    /\ \E s \in EngineStepsTagged(dsess[p]) : dsess' = [dsess EXCEPT ![p] = s]
    /\ UNCHANGED <<pidFile, sockFiles, logFile, nextPid, proc, cli, csess>>

ToolLines == {[kind |-> "json", req |-> Request("tools/call", 1, t)] : t \in ToolCalls}
             \cup {[kind |-> "json", req |-> Request("tools/list", 2, NoParams)]}

NextTagged ==
    \/ \E c \in Clients, p \in Pids, line \in ToolLines : raw_connect(c, p, line)
    \/ \E c \in Clients : raw_finish(c)
    \/ \E p \in Pids : handle_client_accept(p)
    \/ \E p \in Pids : handle_client_reply(p)
    \/ \E p \in Pids : engine_step_tagged(p)

SpecTagged == InitServer /\ [][NextTagged]_vars

\* C25: the line a session consumes for a request is the line its engine
\* wrote for that request: when handle_client's call reads a line, the line
\* carries the id of the request just written (the session's request_id),
\* never no id and never the id of an earlier request.
C25_ResponseMatchesRequest ==
    [][\A p \in Pids :
          proc[p].st = "busy" /\ proc'[p].st # "busy" /\ dsess[p].stdout # <<>> =>
              Head(dsess[p].stdout).id = {dsess[p].request_id}]_vars


\* C26: after stop returns success, the engine of the daemon it stopped does
\* not run any more, on the graceful path and on the forced path alike.
C26_EngineStoppedWithDaemon ==
    \A c \in Clients :
        cli[c].op = "stop" /\ cli[c].pc = "done" /\ cli[c].res.ok =>
            \A p \in cli[c].pid : dsess[p].child # "alive"


\* No start and no stop is in progress.
Quiet == \A c \in Clients : cli[c].op \in {"start", "stop"} => cli[c].pc = "done"

\* C27: whenever no start and no stop is in progress, a daemon process runs
\* only if the PID file names it and a socket file exists only if the PID
\* file names its pid; so after a start that returned a failure the process
\* it spawned does not run and leaves no socket file behind.
C27_FilesMatchProcesses ==
    Quiet =>
        /\ \A p \in Pids : Running(p) => pidFile.exists /\ pidFile.pid = {p}
        /\ \A p \in sockFiles : pidFile.exists /\ pidFile.pid = {p}


\* C28: when start returns success, the daemon it spawned is in its accept
\* loop with a session whose handshake is done (the initialize request and
\* the initialized notification were written): never a daemon that has not
\* started its engine yet, or whose engine failed to spawn or to handshake.
C28_ReadyWhenStarted ==
    [][\A c \in Clients :
          cli[c].op = "start" /\ cli[c].pc = "poll" /\ cli'[c].pc = "done" /\ cli'[c].res.ok =>
              \A p \in cli[c].pid :
                  /\ proc[p].st \in {"serving", "busy"}
                  /\ Len(dsess[p].stdin) >= 2
                  /\ dsess[p].stdin[1] = InitRequest /\ dsess[p].stdin[2] = InitNotification]_vars

====
